---- MODULE Spec2Model ----
(***************************************************************************)
(* A model of github.com/OZahed/envs, the reflective struct walker of      *)
(* struct.go: ParseStruct, ParseValue, parseMap, parseArray, splitStr,     *)
(* parseStructTags and the default key and value functions.                *)
(*                                                                         *)
(* Go strings are modelled as sequences of one-character strings, so that  *)
(* splitting, trimming, joining and replacing are computed, not assumed.   *)
(***************************************************************************)
EXTENDS Integers, Sequences, FiniteSets, TLC

(***************************************************************************)
(* Bounds of the model.                                                    *)
(***************************************************************************)
\* tokens a generated tag default is built from (SpecTags)
MaxTagTokens == 3
\* characters of a generated raw collection string (SpecColl)
MaxRawLen == 4
\* length of the slice a sequence coercion finds in the field (SpecColl)
MaxOldLen == 3
\* non-empty entries of the process environment (Spec)
MaxEnvEntries == 2
\* characters of a generated environment value (SpecGet)
MaxGetLen == 3
\* characters of a generated integer string (SpecValue)
MaxIntLen == 5

(***************************************************************************)
(* State.                                                                  *)
(*   env       the process environment: a function from the keys that are  *)
(*             set to their non-empty values (os.Getenv of any other key   *)
(*             is "")                                                      *)
(*   pc        where the caller is: "idle", "walk", "done", "panic" for    *)
(*             ParseStruct; "call", "done" for a single function call      *)
(*   root      the arguments of the running ParseStruct call               *)
(*   stack     the ParseStruct activations, innermost last                 *)
(*   dest      the destination structure: leaf path -> value               *)
(*   err       the error ParseStruct returned                              *)
(*   lookups   the calls of Parser.Get so far, in order                    *)
(*   written   the paths the walker has written                            *)
(*   envCalls  the calls of ParseEnv so far, in order                      *)
(*   arg, ret  argument and result of a single function call               *)
(***************************************************************************)
VARIABLES env, pc, root, stack, dest, err, lookups, written, envCalls, arg, ret

vars == <<env, pc, root, stack, dest, err, lookups, written, envCalls, arg, ret>>

(***************************************************************************)
(* The strings package, as far as struct.go uses it.                       *)
(***************************************************************************)
Lowers == <<"a","b","c","d","e","f","g","h","i","j","k","l","m",
            "n","o","p","q","r","s","t","u","v","w","x","y","z">>
Uppers == <<"A","B","C","D","E","F","G","H","I","J","K","L","M",
            "N","O","P","Q","R","S","T","U","V","W","X","Y","Z">>
Digits == <<"0","1","2","3","4","5","6","7","8","9">>

Range(f) == { f[i] : i \in DOMAIN f }
IsLower(c) == c \in Range(Lowers)
IsUpper(c) == c \in Range(Uppers)
IsDigit(c) == c \in Range(Digits)
IsLetter(c) == IsLower(c) \/ IsUpper(c)
IsSpace(c) == c \in {" ", "\t", "\n", "\r"}

DigitVal(c) == (CHOOSE i \in DOMAIN Digits : Digits[i] = c) - 1

ToUpperChar(c) ==
    IF IsLower(c) THEN Uppers[CHOOSE i \in DOMAIN Lowers : Lowers[i] = c] ELSE c

\* strings.ToUpper
ToUpper(s) == [i \in DOMAIN s |-> ToUpperChar(s[i])]

Drop(s, n) == SubSeq(s, n + 1, Len(s))
Take(s, n) == SubSeq(s, 1, n)

HasPrefix(s, p) == Len(p) <= Len(s) /\ Take(s, Len(p)) = p

\* strings.Index, 1-based; 0 when sep does not occur in s
Index(s, sep) ==
    LET hits == { i \in 1..(Len(s) - Len(sep) + 1) : SubSeq(s, i, i + Len(sep) - 1) = sep }
    IN  IF hits = {} THEN 0 ELSE CHOOSE i \in hits : \A j \in hits : i <= j

Contains(s, sep) == Index(s, sep) # 0

RECURSIVE TrimLeftSpace(_)
TrimLeftSpace(s) ==
    IF s # <<>> /\ IsSpace(Head(s)) THEN TrimLeftSpace(Tail(s)) ELSE s

RECURSIVE TrimRightSpace(_)
TrimRightSpace(s) ==
    IF s # <<>> /\ IsSpace(s[Len(s)]) THEN TrimRightSpace(Take(s, Len(s) - 1)) ELSE s

\* strings.TrimSpace
TrimSpace(s) == TrimRightSpace(TrimLeftSpace(s))

\* strings.Split with a non-empty separator: n separators give n + 1 pieces
RECURSIVE Split(_, _)
Split(s, sep) ==
    LET i == Index(s, sep)
    IN  IF i = 0 THEN <<s>>
        ELSE <<Take(s, i - 1)>> \o Split(Drop(s, i - 1 + Len(sep)), sep)

\* strings.Join
RECURSIVE Join(_, _)
Join(parts, sep) ==
    IF parts = <<>> THEN <<>>
    ELSE IF Len(parts) = 1 THEN parts[1]
    ELSE parts[1] \o sep \o Join(Tail(parts), sep)

\* strings.ReplaceAll with a non-empty old: leftmost, non-overlapping
RECURSIVE ReplaceAll(_, _, _)
ReplaceAll(s, old, new) ==
    LET i == Index(s, old)
    IN  IF i = 0 THEN s
        ELSE Take(s, i - 1) \o new \o ReplaceAll(Drop(s, i - 1 + Len(old)), old, new)

RECURSIVE Flatten(_)
Flatten(ss) == IF ss = <<>> THEN <<>> ELSE Head(ss) \o Flatten(Tail(ss))

\* all sequences over S of length at most n
RECURSIVE SeqsUpTo(_, _)
SeqsUpTo(S, n) ==
    IF n = 0 THEN { <<>> }
    ELSE LET shorter == SeqsUpTo(S, n - 1)
         IN  shorter \cup { Append(q, x) : q \in shorter, x \in S }

(***************************************************************************)
(* convertUpperCaseWithUnderLine, struct.go:345: every match of the regexp *)
(* ([a-z0-9])([A-Z]), leftmost and non-overlapping, gets an underscore     *)
(* between its two characters.                                             *)
(***************************************************************************)
RECURSIVE convertUpperCaseWithUnderLine(_)
convertUpperCaseWithUnderLine(in) ==
    IF Len(in) < 2 THEN in
    ELSE IF (IsLower(in[1]) \/ IsDigit(in[1])) /\ IsUpper(in[2])
         THEN <<in[1], "_", in[2]>> \o convertUpperCaseWithUnderLine(Drop(in, 2))
         ELSE <<in[1]>> \o convertUpperCaseWithUnderLine(Tail(in))

\* DefaultKeyFunc, struct.go:47
DefaultKeyFunc(key) == ReplaceAll(TrimSpace(key), <<".">>, <<"_">>)

(***************************************************************************)
(* splitStr, struct.go:300: the first separator of stringSeparators that   *)
(* changes the first piece wins; when none does, the result is the split   *)
(* on the last separator, the one-element list of the value itself.        *)
(***************************************************************************)
stringSeparators == << <<",">>, <<";">>, <<";">>, <<"-">>, <<" ">> >>

RECURSIVE splitStrFrom(_, _)
splitStrFrom(value, i) ==
    LET split == Split(value, stringSeparators[i])
    IN  IF split[1] # value \/ i = Len(stringSeparators) THEN split
        ELSE splitStrFrom(value, i + 1)

splitStr(value) == splitStrFrom(value, 1)

(***************************************************************************)
(* The strconv, time and net/url parsers ParseValue calls.  Each returns   *)
(* [err, val]; val is meaningful only when err is FALSE.                   *)
(***************************************************************************)
AllDigits(s) == \A i \in DOMAIN s : IsDigit(s[i])

RECURSIVE Atoi(_)
Atoi(s) == IF s = <<>> THEN 0 ELSE 10 * Atoi(Take(s, Len(s) - 1)) + DigitVal(s[Len(s)])

\* strconv.ParseUint(s, 10, 64); the range error needs 20 digits and more,
\* which no string of this model has
ParseUint(s) ==
    IF s = <<>> \/ ~AllDigits(s) THEN [err |-> TRUE, val |-> 0]
    ELSE [err |-> FALSE, val |-> Atoi(s)]

\* strconv.ParseInt(s, 10, 64): an optional sign, then ParseUint
ParseInt(s) ==
    IF s = <<>> THEN [err |-> TRUE, val |-> 0]
    ELSE LET neg  == s[1] = "-"
             body == IF s[1] \in {"+", "-"} THEN Tail(s) ELSE s
             u    == ParseUint(body)
         IN  IF u.err THEN [err |-> TRUE, val |-> 0]
             ELSE [err |-> FALSE, val |-> IF neg THEN 0 - u.val ELSE u.val]

\* strconv.ParseBool
ParseBool(s) ==
    IF s \in { <<"1">>, <<"t">>, <<"T">>, <<"t","r","u","e">>,
               <<"T","R","U","E">>, <<"T","r","u","e">> }
    THEN [err |-> FALSE, val |-> TRUE]
    ELSE IF s \in { <<"0">>, <<"f">>, <<"F">>, <<"f","a","l","s","e">>,
                    <<"F","A","L","S","E">>, <<"F","a","l","s","e">> }
    THEN [err |-> FALSE, val |-> FALSE]
    ELSE [err |-> TRUE, val |-> FALSE]

RECURSIVE StripTrailingZeros(_)
StripTrailingZeros(s) ==
    IF s # <<>> /\ s[Len(s)] = "0" THEN StripTrailingZeros(Take(s, Len(s) - 1)) ELSE s

\* strconv.ParseFloat(s, 64) on strings of digits, a sign and a point (no
\* exponent, no hexadecimal, no inf or nan): the value is num / 10^scale
ParseFloat(s) ==
    LET neg   == s # <<>> /\ s[1] = "-"
        body  == IF s # <<>> /\ s[1] \in {"+", "-"} THEN Tail(s) ELSE s
        parts == Split(body, <<".">>)
        int   == parts[1]
        frac  == IF Len(parts) = 2 THEN StripTrailingZeros(parts[2]) ELSE <<>>
        bad   == \/ Len(parts) > 2
                 \/ ~AllDigits(int)
                 \/ (Len(parts) = 2 /\ ~AllDigits(parts[2]))
                 \/ (int = <<>> /\ (Len(parts) < 2 \/ parts[2] = <<>>))
        n     == Atoi(int \o frac)
    IN  IF bad THEN [err |-> TRUE, val |-> [num |-> 0, scale |-> 0]]
        ELSE [err |-> FALSE,
              val |-> [num |-> IF neg THEN 0 - n ELSE n, scale |-> Len(frac)]]

\* the units of time.ParseDuration, in nanoseconds or whole seconds
DurationUnits ==
    { <<"n","s">>, <<"u","s">>, <<"m","s">>, <<"s">>, <<"m">>, <<"h">> }

UnitSeconds(u) == IF u = <<"h">> THEN 3600 ELSE IF u = <<"m">> THEN 60
                  ELSE IF u = <<"s">> THEN 1 ELSE 0

UnitNanos(u) == IF u = <<"m","s">> THEN 1000000 ELSE IF u = <<"u","s">> THEN 1000
                ELSE IF u = <<"n","s">> THEN 1 ELSE 0

RECURSIVE LeadingDigits(_)
LeadingDigits(s) ==
    IF s # <<>> /\ IsDigit(s[1]) THEN 1 + LeadingDigits(Tail(s)) ELSE 0

RECURSIVE LeadingUnit(_)
LeadingUnit(s) ==
    IF s # <<>> /\ ~IsDigit(s[1]) /\ s[1] # "." THEN 1 + LeadingUnit(Tail(s)) ELSE 0

\* the groups of a duration: <number><unit>, one or more; [err, s, ns]
RECURSIVE DurationGroups(_)
DurationGroups(s) ==
    IF s = <<>> THEN [err |-> FALSE, s |-> 0, ns |-> 0]
    ELSE LET nd   == LeadingDigits(s)
             rest == Drop(s, nd)
             nu   == LeadingUnit(rest)
             unit == Take(rest, nu)
             v    == Atoi(Take(s, nd))
             more == DurationGroups(Drop(rest, nu))
         IN  IF nd = 0 \/ nu = 0 \/ unit \notin DurationUnits \/ more.err
             THEN [err |-> TRUE, s |-> 0, ns |-> 0]
             ELSE [err |-> FALSE,
                   s  |-> v * UnitSeconds(unit) + more.s,
                   ns |-> v * UnitNanos(unit) + more.ns]

\* time.ParseDuration on strings without a fraction; the value is kept as
\* whole seconds and nanoseconds, sign applied to both
ParseDuration(s) ==
    LET neg  == s # <<>> /\ s[1] = "-"
        body == IF s # <<>> /\ s[1] \in {"+", "-"} THEN Tail(s) ELSE s
        g    == DurationGroups(body)
        sgn  == IF neg THEN 0 - 1 ELSE 1
        zero == [s |-> 0, ns |-> 0]
    IN  IF s = <<>> \/ body = <<>> THEN [err |-> TRUE, val |-> zero]
        ELSE IF body = <<"0">> THEN [err |-> FALSE, val |-> zero]
        ELSE IF g.err THEN [err |-> TRUE, val |-> zero]
        ELSE [err |-> FALSE, val |-> [s |-> sgn * g.s, ns |-> sgn * g.ns]]

(***************************************************************************)
(* url.Parse, as far as its scheme and first-segment rules go.             *)
(***************************************************************************)
\* getScheme of net/url: [err, scheme, rest]
RECURSIVE getSchemeFrom(_, _)
getSchemeFrom(raw, i) ==
    IF i > Len(raw) THEN [err |-> FALSE, scheme |-> <<>>, rest |-> raw]
    ELSE LET c == raw[i]
         IN  IF IsLetter(c) THEN getSchemeFrom(raw, i + 1)
             ELSE IF IsDigit(c) \/ c \in {"+", "-", "."}
                  THEN IF i = 1 THEN [err |-> FALSE, scheme |-> <<>>, rest |-> raw]
                       ELSE getSchemeFrom(raw, i + 1)
             ELSE IF c = ":"
                  THEN IF i = 1 THEN [err |-> TRUE, scheme |-> <<>>, rest |-> <<>>]
                       ELSE [err |-> FALSE, scheme |-> Take(raw, i - 1), rest |-> Drop(raw, i)]
             ELSE [err |-> FALSE, scheme |-> <<>>, rest |-> raw]

UrlParse(raw) ==
    LET g     == getSchemeFrom(raw, 1)
        first == Split(g.rest, <<"/">>)[1]
        none  == [nil |-> TRUE, scheme |-> <<>>, rest |-> <<>>]
    IN  IF \E i \in DOMAIN raw : raw[i] \in {"\t", "\n", "\r"} THEN [err |-> TRUE, val |-> none]
        ELSE IF g.err THEN [err |-> TRUE, val |-> none]
        ELSE IF g.scheme = <<>> /\ ~HasPrefix(g.rest, <<"/">>) /\ Contains(first, <<":">>)
             THEN [err |-> TRUE, val |-> none]
        ELSE [err |-> FALSE, val |-> [nil |-> FALSE, scheme |-> g.scheme, rest |-> g.rest]]


(***************************************************************************)
(* parseTime, struct.go:311: the first layout of timeFormats that          *)
(* time.Parse accepts gives the value; when none does, the joined errors.  *)
(* A layout is a sequence of elements: Y (2006), M (01), D (02), h (15),   *)
(* m (04), s (05), Z (-07:00) and literal characters.  The seven layouts   *)
(* that hold a name (weekday, month, PM, MST, the T of RFC 3339) accept    *)
(* only strings with letters and digits; they are listed with the element  *)
(* N, which matches nothing, and the model feeds parseTime no such string. *)
(***************************************************************************)
timeFormats ==
    << <<"Y","-","M","-","D">>,                                          \* time.DateOnly
       <<"h",":","m",":","s">>,                                          \* time.TimeOnly
       <<"Y","-","M","-","D"," ","h",":","m",":","s">>,                  \* time.DateTime
       <<"Y","-","M","-","D"," ","h",":","m",":","s","Z">>,
       <<"N">>, <<"N">>, <<"N">>, <<"N">>, <<"N">>,    \* Kitchen, RFC3339, RFC1123, RFC1123Z, ANSIC
       <<"Y","/","M","/","D">>,
       <<"Y","/","M","/","D"," ","h",":","m",":","s">>,
       <<"N">>, <<"N">> >>                             \* UnixDate, RubyDate

\* time.Time{}
ZeroTime == [Y |-> 1, M |-> 1, D |-> 1, h |-> 0, m |-> 0, s |-> 0, z |-> 0]

DaysIn(month, year) ==
    IF month = 2
    THEN IF year % 4 = 0 /\ (year % 100 # 0 \/ year % 400 = 0) THEN 29 ELSE 28
    ELSE IF month \in {4, 6, 9, 11} THEN 30 ELSE 31

\* time.Parse's walk over the layout: [err, val]
RECURSIVE timeParseFrom(_, _, _)
timeParseFrom(layout, value, acc) ==
    LET fail == [err |-> TRUE, val |-> ZeroTime]
        two  == Len(value) >= 2 /\ AllDigits(Take(value, 2))
        n2   == Atoi(Take(value, 2))
    IN  IF layout = <<>>
        THEN IF value # <<>> \/ acc.D > DaysIn(acc.M, acc.Y) THEN fail
             ELSE [err |-> FALSE, val |-> acc]
        ELSE LET el == Head(layout) rest == Tail(layout)
             IN  CASE el = "N" -> fail
                   [] el = "Y" ->
                        IF Len(value) >= 4 /\ AllDigits(Take(value, 4))
                        THEN timeParseFrom(rest, Drop(value, 4), [acc EXCEPT !.Y = Atoi(Take(value, 4))])
                        ELSE fail
                   [] el = "M" ->
                        IF two /\ n2 \in 1..12
                        THEN timeParseFrom(rest, Drop(value, 2), [acc EXCEPT !.M = n2]) ELSE fail
                   [] el = "D" ->
                        IF two /\ n2 \in 1..31
                        THEN timeParseFrom(rest, Drop(value, 2), [acc EXCEPT !.D = n2]) ELSE fail
                   [] el = "h" ->
                        LET k == IF two THEN 2 ELSE 1
                        IN  IF value # <<>> /\ IsDigit(value[1]) /\ Atoi(Take(value, k)) < 24
                            THEN timeParseFrom(rest, Drop(value, k), [acc EXCEPT !.h = Atoi(Take(value, k))])
                            ELSE fail
                   [] el = "m" ->
                        IF two /\ n2 < 60
                        THEN timeParseFrom(rest, Drop(value, 2), [acc EXCEPT !.m = n2]) ELSE fail
                   [] el = "s" ->
                        IF two /\ n2 < 60
                        THEN timeParseFrom(rest, Drop(value, 2), [acc EXCEPT !.s = n2]) ELSE fail
                   [] el = "Z" ->
                        IF /\ Len(value) >= 6
                           /\ value[1] \in {"+", "-"}
                           /\ AllDigits(SubSeq(value, 2, 3))
                           /\ value[4] = ":"
                           /\ AllDigits(SubSeq(value, 5, 6))
                        THEN LET off == 60 * Atoi(SubSeq(value, 2, 3)) + Atoi(SubSeq(value, 5, 6))
                             IN  timeParseFrom(rest, Drop(value, 6),
                                     [acc EXCEPT !.z = IF value[1] = "-" THEN 0 - off ELSE off])
                        ELSE fail
                   [] el = " " ->
                        IF value # <<>> /\ value[1] # " " THEN fail
                        ELSE timeParseFrom(rest, TrimLeftSpace(value), acc)
                   [] OTHER ->
                        IF value # <<>> /\ value[1] = el
                        THEN timeParseFrom(rest, Tail(value), acc) ELSE fail

\* a layout without a year leaves the year 0
timeParse(layout, value) == timeParseFrom(layout, value, [ZeroTime EXCEPT !.Y = 0])

\* the result of one layout if it is no error, else that of the layouts after it
FirstParsed(r, others) == IF ~r.err THEN r ELSE others

RECURSIVE parseTimeFrom(_, _)
parseTimeFrom(value, i) ==
    IF i > Len(timeFormats) THEN [err |-> TRUE, val |-> ZeroTime]
    ELSE FirstParsed(timeParse(timeFormats[i], value), parseTimeFrom(value, i + 1))

parseTime(value) == parseTimeFrom(value, 1)


(***************************************************************************)
(* Types.  A leaf type is [kind, bits]; kind is the reflect.Kind, or the   *)
(* named type ParseValue switches on first (time, url, duration).          *)
(***************************************************************************)
Leaf(kind, bits) == [kind |-> kind, bits |-> bits]

StringT   == Leaf("string", 0)
IntT      == Leaf("int", 64)
Float64T  == Leaf("float", 64)
BoolT     == Leaf("bool", 0)
TimeT     == Leaf("time", 0)
DurationT == Leaf("duration", 64)
UrlT      == Leaf("url", 0)
FuncT     == Leaf("func", 0)
NoT       == Leaf("none", 0)

\* the zero value of a leaf type
Zero(t) ==
    CASE t.kind = "string"   -> <<>>
      [] t.kind \in {"int", "uint"} -> 0
      [] t.kind = "float"    -> [num |-> 0, scale |-> 0]
      [] t.kind = "bool"     -> FALSE
      [] t.kind = "time"     -> ZeroTime
      [] t.kind = "duration" -> [s |-> 0, ns |-> 0]
      [] t.kind = "url"      -> [nil |-> TRUE, scheme |-> <<>>, rest |-> <<>>]
      [] OTHER               -> "nil"

RECURSIVE Pow2(_)
Pow2(n) == IF n = 0 THEN 1 ELSE 2 * Pow2(n - 1)

\* reflect.Value.SetInt and SetUint store the low bits of the 64-bit number
\* in a field of that many bits; numbers of this model fit 32 bits
SetInt(n, bits) ==
    IF bits >= 32 THEN n
    ELSE ((n + Pow2(bits - 1)) % Pow2(bits)) - Pow2(bits - 1)

SetUint(n, bits) == IF bits >= 32 THEN n ELSE n % Pow2(bits)

(***************************************************************************)
(* ParseValue, struct.go:143, on a settable value of a leaf type:          *)
(* [err, set, val]; set tells whether the value was written.               *)
(***************************************************************************)
Stored(r) == [err |-> r.err, set |-> ~r.err, val |-> r.val]
StoredInt(r, bits) == [err |-> r.err, set |-> ~r.err, val |-> SetInt(r.val, bits)]
StoredUint(r, bits) == [err |-> r.err, set |-> ~r.err, val |-> SetUint(r.val, bits)]
NotStored(t) == [err |-> FALSE, set |-> FALSE, val |-> Zero(t)]

ParseLeaf(t, strValue) ==
    CASE t.kind = "func"     -> NotStored(t)
      [] t.kind = "time"     -> Stored(parseTime(strValue))
      [] t.kind = "url"      -> Stored(UrlParse(strValue))
      [] t.kind = "duration" -> Stored(ParseDuration(strValue))
      [] t.kind = "string"   -> [err |-> FALSE, set |-> TRUE, val |-> strValue]
      [] t.kind = "int"      -> StoredInt(ParseInt(strValue), t.bits)
      [] t.kind = "uint"     -> StoredUint(ParseUint(strValue), t.bits)
      [] t.kind = "float"    -> Stored(ParseFloat(strValue))
      [] t.kind = "bool"     -> Stored(ParseBool(strValue))
      [] OTHER               -> NotStored(t)

(***************************************************************************)
(* parseMap, struct.go:245.  The map is a function; it is made fresh       *)
(* before the first pair and keeps the pairs inserted before an error.     *)
(***************************************************************************)
\* the value a ParseValue call leaves in a fresh reflect.New(t).Elem()
Held(t, r) == IF r.set THEN r.val ELSE Zero(t)

RECURSIVE parseMapFrom(_, _, _, _)

\* struct.go:266-274, k and v the results of the two ParseValue calls
setMapIndex(keyType, valueType, rest, m, k, v) ==
    IF k.err \/ v.err THEN [err |-> TRUE, val |-> m]
    ELSE parseMapFrom(keyType, valueType, rest,
                      (Held(keyType, k) :> Held(valueType, v)) @@ m)

\* struct.go:256-264, splt the pair split on ":"
parsePair(keyType, valueType, rest, m, splt) ==
    IF Len(splt) < 2 THEN [err |-> TRUE, val |-> m]
    ELSE setMapIndex(keyType, valueType, rest, m,
                     ParseLeaf(keyType, TrimSpace(splt[1])),
                     ParseLeaf(valueType, TrimSpace(splt[2])))

parseMapFrom(keyType, valueType, kv, m) ==
    IF kv = <<>> THEN [err |-> FALSE, val |-> m]
    ELSE parsePair(keyType, valueType, Tail(kv), m, Split(Head(kv), <<":">>))

parseMap(keyType, valueType, str) ==
    parseMapFrom(keyType, valueType, splitStr(str), <<>>)

(***************************************************************************)
(* parseArray, struct.go:279.  The slice is resized to the number of       *)
(* pieces (old elements kept, new ones zero), then filled piece by piece;  *)
(* an error leaves the elements after the failing one as they were.        *)
(***************************************************************************)
Resize(old, n, elemType) ==
    [i \in 1..n |-> IF i <= Len(old) THEN old[i] ELSE Zero(elemType)]

RECURSIVE parseArrayFrom(_, _, _, _)

\* struct.go:291-294, r the result of the element's ParseValue call
setIndex(elemType, cur, splits, i, r) ==
    IF r.err THEN [err |-> TRUE, val |-> cur]
    ELSE parseArrayFrom(elemType, IF r.set THEN [cur EXCEPT ![i] = r.val] ELSE cur,
                        splits, i + 1)

parseArrayFrom(elemType, cur, splits, i) ==
    IF i > Len(splits) THEN [err |-> FALSE, val |-> cur]
    ELSE setIndex(elemType, cur, splits, i, ParseLeaf(elemType, TrimSpace(splits[i])))

\* struct.go:282-286
setLen(elemType, old, splits) ==
    parseArrayFrom(elemType, Resize(old, Len(splits), elemType), splits, 1)

\* SetLen only when the slice has to grow
setLenGrowOnly(elemType, old, splits) ==
    parseArrayFrom(elemType,
                   Resize(old, IF Len(splits) > Len(old) THEN Len(splits) ELSE Len(old), elemType),
                   splits, 1)

\* a parseArray that grows the slice and never shortens it
parseArrayGrowOnly(elemType, old, value) == setLenGrowOnly(elemType, old, splitStr(value))

parseArray(elemType, old, value) == setLen(elemType, old, splitStr(value))

(***************************************************************************)
(* parseStructTags, struct.go:323.                                         *)
(***************************************************************************)
DefaultMarker == <<"d","e","f","a","u","l","t","=">>

parseStructTags(tagVal0) ==
    LET tagVal == TrimSpace(tagVal0)
    IN  IF tagVal = <<"-">> \/ tagVal = <<>> THEN [key |-> <<>>, def |-> <<>>]
        ELSE LET parts == Split(tagVal, <<",">>)
                 key   == parts[1]
             IN  IF Len(parts) < 2 THEN [key |-> key, def |-> <<>>]
                 ELSE LET p1     == ReplaceAll(parts[2], DefaultMarker, <<>>)
                          parts1 == [parts EXCEPT ![2] = p1]
                      IN  [key |-> key,
                           def |-> IF Len(parts1) > 2
                                   THEN Join(Tail(parts1), <<",">>)
                                   ELSE p1]

(***************************************************************************)
(* The structures ParseStruct walks in this model, after the Config        *)
(* structures of envs_test.go:                                             *)
(*                                                                         *)
(*   type TestParsVal struct { Name string `env:"NAME"` }   // has ParseEnv*)
(*   type Config struct {                                                  *)
(*       Host    string         `env:"HOST,default=h"`                     *)
(*       Port    int            `env:"PORT,default=80"`                    *)
(*       secret  string         `env:"SECRET,default=s"`                   *)
(*       TestVal TestParsVal    `env:"PV"`                                 *)
(*       Server  struct {                                                  *)
(*           TimeOut time.Duration                                         *)
(*           Db      struct { Pass int `env:"PASS"` } `env:"DB"`           *)
(*           TLS     bool `env:"TLS"`                                      *)
(*       }                                                                 *)
(*       Ints    []int          `env:"INTS,default=1, 2"`                  *)
(*       TestMap map[int]string `env:"MAP,default=1:a,2:b"`                *)
(*       Rate    float64        `env:"RATE"`                               *)
(*       Site    *url.URL       `env:"SITE"`                               *)
(*       Hook    func()         `env:"HOOK"`                               *)
(*   }                                                                     *)
(*   type Event struct {                                                   *)
(*       Name string    `env:"NAME,default=Omid"`                          *)
(*       At   time.Time `env:"AT"`                                         *)
(*       Nop  struct{}  `env:"NOP"`                                        *)
(*   }                                                                     *)
(*   type Marked struct {                                                  *)
(*       Keep  int    `env:"-"`                                            *)
(*       Blank string `env:""`                                             *)
(*   }                                                                     *)
(***************************************************************************)
LeafField(t) ==
    [kind |-> t.kind, bits |-> t.bits, key |-> NoT, elem |-> NoT, struct |-> "", self |-> FALSE]
MapField(k, e) ==
    [kind |-> "map", bits |-> 0, key |-> k, elem |-> e, struct |-> "", self |-> FALSE]
SliceField(e) ==
    [kind |-> "slice", bits |-> 0, key |-> NoT, elem |-> e, struct |-> "", self |-> FALSE]
StructField(name, self) ==
    [kind |-> "struct", bits |-> 0, key |-> NoT, elem |-> NoT, struct |-> name, self |-> self]

Tagged(name, tag, type) == [name |-> name, hasTag |-> TRUE, tag |-> tag, type |-> type]
Untagged(name, type) == [name |-> name, hasTag |-> FALSE, tag |-> <<>>, type |-> type]

\* the fields of Config, in declaration order
ConfigFields ==
    << Tagged(<<"H","o","s","t">>,
              <<"H","O","S","T",",","d","e","f","a","u","l","t","=","h">>,
              LeafField(StringT)),
       Tagged(<<"P","o","r","t">>,
              <<"P","O","R","T",",","d","e","f","a","u","l","t","=","8","0">>,
              LeafField(IntT)),
       Tagged(<<"s","e","c","r","e","t">>,
              <<"S","E","C","R","E","T",",","d","e","f","a","u","l","t","=","s">>,
              LeafField(StringT)),
       Tagged(<<"T","e","s","t","V","a","l">>, <<"P","V">>,
              StructField("TestParsVal", TRUE)),
       Untagged(<<"S","e","r","v","e","r">>, StructField("Server", FALSE)),
       Tagged(<<"I","n","t","s">>,
              <<"I","N","T","S",",","d","e","f","a","u","l","t","=","1",","," ","2">>,
              SliceField(IntT)),
       Tagged(<<"T","e","s","t","M","a","p">>,
              <<"M","A","P",",","d","e","f","a","u","l","t","=","1",":","a",",","2",":","b">>,
              MapField(IntT, StringT)),
       Tagged(<<"R","a","t","e">>, <<"R","A","T","E">>, LeafField(Float64T)),
       Tagged(<<"S","i","t","e">>, <<"S","I","T","E">>, LeafField(UrlT)),
       Tagged(<<"H","o","o","k">>, <<"H","O","O","K">>, LeafField(FuncT)) >>

\* the fields of Server, in declaration order
ServerFields ==
    << Untagged(<<"T","i","m","e","O","u","t">>, LeafField(DurationT)),
       Tagged(<<"D","b">>, <<"D","B">>, StructField("Db", FALSE)),
       Tagged(<<"T","L","S">>, <<"T","L","S">>, LeafField(BoolT)) >>

\* the fields of Db, in declaration order
DbFields ==
    << Tagged(<<"P","a","s","s">>, <<"P","A","S","S">>, LeafField(IntT)) >>

\* the fields of TestParsVal, in declaration order
TestParsValFields ==
    << Tagged(<<"N","a","m","e">>, <<"N","A","M","E">>, LeafField(StringT)) >>

\* the fields of Event, in declaration order
EventFields ==
    << Tagged(<<"N","a","m","e">>,
              <<"N","A","M","E",",","d","e","f","a","u","l","t","=","O","m","i","d">>,
              LeafField(StringT)),
       Tagged(<<"A","t">>, <<"A","T">>, LeafField(TimeT)),
       Tagged(<<"N","o","p">>, <<"N","O","P">>, StructField("Empty", FALSE)) >>

\* the fields of Marked, in declaration order
MarkedFields ==
    << Tagged(<<"K","e","e","p">>, <<"-">>, LeafField(IntT)),
       Tagged(<<"B","l","a","n","k">>, <<>>, LeafField(StringT)) >>

\* reflect.Type.NumField and reflect.Type.Field of a structure type
Fields(struct) ==
    CASE struct = "Config" -> ConfigFields
      [] struct = "Server" -> ServerFields
      [] struct = "Db" -> DbFields
      [] struct = "TestParsVal" -> TestParsValFields
      [] struct = "Event" -> EventFields
      [] struct = "Marked" -> MarkedFields
      [] OTHER -> << >>

RootStructs == {"Config", "Event", "Marked"}
Prefixes == { <<>>, <<"A","P","P">> }

\* reflect.StructField.IsExported
IsExported(f) == IsUpper(f.name[1])

\* reflect.Type.Kind: time.Time is a struct, *url.URL a pointer and
\* time.Duration an int64
ReflectKind(t) ==
    CASE t.kind = "time"     -> "struct"
      [] t.kind = "url"      -> "ptr"
      [] t.kind = "duration" -> "int"
      [] OTHER               -> t.kind

\* the leaves of a structure, with their types, as paths of field names
RECURSIVE Leaves(_, _)
Leaves(struct, path) ==
    UNION { LET f == Fields(struct)[i]
                p == Append(path, f.name)
            IN  IF f.type.kind = "struct" THEN Leaves(f.type.struct, p)
                ELSE { [path |-> p, type |-> f.type] }
            : i \in DOMAIN Fields(struct) }

LeafType(struct, path) ==
    (CHOOSE l \in Leaves(struct, <<>>) : l.path = path).type

\* the value a field holds before the walk: its zero value, or something else
ZeroOf(t) ==
    CASE t.kind = "map"   -> <<>>
      [] t.kind = "slice" -> <<>>
      [] OTHER            -> Zero(t)

PresetOf(t) ==
    CASE t.kind = "string"   -> <<"o","l","d">>
      [] t.kind = "int"      -> 7
      [] t.kind = "float"    -> [num |-> 7, scale |-> 0]
      [] t.kind = "bool"     -> TRUE
      [] t.kind = "time"     -> [ZeroTime EXCEPT !.Y = 1999]
      [] t.kind = "duration" -> [s |-> 7, ns |-> 0]
      [] t.kind = "url"      -> [nil |-> FALSE, scheme |-> <<"o">>, rest |-> <<>>]
      [] t.kind = "map"      -> (9 :> <<"o","l","d">>)
      [] t.kind = "slice"    -> <<7, 7, 7>>
      [] OTHER               -> "old"

InitialDest(struct, preset) ==
    [p \in { l.path : l \in Leaves(struct, <<>>) } |->
        IF preset THEN PresetOf(LeafType(struct, p)) ELSE ZeroOf(LeafType(struct, p))]

(***************************************************************************)
(* The process environment.  Its keys are those the structures above can   *)
(* be asked for under either root prefix, so that under one prefix the     *)
(* keys of the other are set and must not be read.                         *)
(***************************************************************************)
\* the lookup key of a field: its tag's text before the first comma, nothing
\* for the tag "-", or its name in upper snake case
Segment(f) ==
    IF ~f.hasTag THEN ToUpper(convertUpperCaseWithUnderLine(f.name))
    ELSE IF f.tag = <<"-">> THEN <<>>
    ELSE Split(f.tag, <<",">>)[1]

\* prefix and segments joined with ".", the leading "prefix." left out when
\* the prefix is empty
DottedKey(prefix, segs) ==
    Join((IF prefix = <<>> THEN << >> ELSE <<prefix>>) \o segs, <<".">>)

\* every field the walker can reach from a structure, with the segments of
\* the fields it is reached through
RECURSIVE Reach(_, _, _)
Reach(struct, segs, path) ==
    UNION { LET f  == Fields(struct)[i]
                sg == Append(segs, Segment(f))
                p  == Append(path, f.name)
            IN  { [path |-> p, segs |-> sg, type |-> f.type] }
                \cup (IF f.type.kind = "struct" /\ ~f.type.self
                      THEN Reach(f.type.struct, sg, p) ELSE {})
            : i \in DOMAIN Fields(struct) }

\* the key TestParsVal.ParseEnv reads, envs_test.go:151
TestParsValKey(prefix) ==
    ReplaceAll(prefix \o <<"_">> \o <<"N","A","M","E">>, <<".">>, <<"_">>)

\* the values a key of a field of that type may be set to: good and bad ones
Candidates(t) ==
    CASE t.kind = "int"      -> { <<"3">>, <<"x">> }
      [] t.kind = "float"    -> { <<"1",".","5">>, <<"x">> }
      [] t.kind = "bool"     -> { <<"t">>, <<"x">> }
      [] t.kind = "duration" -> { <<"2","s">>, <<"x">> }
      [] t.kind = "time"     -> { <<"2","0","2","4","-","0","4","-","1","6">>, <<"x">> }
      [] t.kind = "url"      -> { <<"h",":","/","t">>, <<":","x">> }
      [] t.kind = "slice"    -> { <<"4",";","5",";","6",";","8">>, <<"4"," ","x">> }
      [] t.kind = "map"      -> { <<"3",":","c">>, <<"3">> }
      [] OTHER               -> { <<"x">> }

\* the keys the walker can ask for, each with the values it may be set to
KeyedValues ==
    UNION { { <<DefaultKeyFunc(DottedKey(P, e.segs)), v>> : v \in Candidates(e.type) }
            \cup (IF e.type.kind = "struct" /\ e.type.self
                  THEN { <<TestParsValKey(DottedKey(P, e.segs)), <<"n">> >> } ELSE {})
            : P \in Prefixes, e \in UNION { Reach(r, <<>>, <<>>) : r \in RootStructs } }

\* no variable of the environment has the empty name
EnvPairs == { kv \in KeyedValues : kv[1] # <<>> }

\* the environments with at most n keys set
RECURSIVE Envs(_)
Envs(n) ==
    IF n = 0 THEN { <<>> }
    ELSE LET fewer == Envs(n - 1)
         IN  fewer \cup UNION { { (kv[1] :> kv[2]) @@ e :
                                      e \in { x \in fewer : kv[1] \notin DOMAIN x } }
                                  : kv \in EnvPairs }

\* os.Getenv
Getenv(key) == IF key \in DOMAIN env THEN env[key] ELSE <<>>

\* a getter that prefers the tag's default to the environment
DefaultGetFuncPreferDefault(key, def) ==
    IF def # <<>> THEN def ELSE Getenv(key)

\* DefaultGetFunc, struct.go:36
DefaultGetFunc(key, def) ==
    LET val == Getenv(key)
    IN  IF val = <<>> THEN def ELSE val

(***************************************************************************)
(* ParseStruct, struct.go:85, one action per turn of its loop.             *)
(***************************************************************************)
NoError == [kind |-> "nil", path |-> <<>>]
NoCall == [fn |-> "none"]
Error(kind, path) == [kind |-> kind, path |-> path]

Init ==
    /\ env \in Envs(MaxEnvEntries)
    /\ pc = "idle"
    /\ root = [kind |-> "none"]
    /\ stack = <<>>
    /\ dest = <<>>
    /\ err = NoError
    /\ lookups = <<>>
    /\ written = {}
    /\ envCalls = <<>>
    /\ arg = NoCall
    /\ ret = "none"

CallUnchanged == UNCHANGED <<env, arg, ret>>

\* dest is not a pointer: struct.go:89
CallNotPointer ==
    /\ pc = "idle"
    /\ root' = [kind |-> "value"]
    /\ pc' = "done"
    /\ err' = Error("NotAPointer", <<>>)
    /\ UNCHANGED <<stack, dest, lookups, written, envCalls>>
    /\ CallUnchanged

\* dest is a nil pointer: struct.go:93; dst is reflect.ValueOf(dest), which is
\* not addressable, and reflect.Value.Set panics on it
CallNilPointer ==
    /\ pc = "idle"
    /\ \E elem \in {"struct", "int"} : root' = [kind |-> "nilptr", elem |-> elem]
    /\ pc' = "panic"
    /\ UNCHANGED <<stack, dest, err, lookups, written, envCalls>>
    /\ CallUnchanged

\* dest points to something that is no structure: struct.go:98
CallNotStruct ==
    /\ pc = "idle"
    /\ root' = [kind |-> "ptr", elem |-> "int"]
    /\ pc' = "done"
    /\ err' = Error("NotAStruct", <<>>)
    /\ UNCHANGED <<stack, dest, lookups, written, envCalls>>
    /\ CallUnchanged

\* dest points to a structure: the walk starts at its first field
CallStruct ==
    /\ pc = "idle"
    /\ \E struct \in RootStructs, prefix \in Prefixes, preset \in BOOLEAN :
          /\ root' = [kind |-> "ptr", elem |-> "struct", struct |-> struct,
                      prefix |-> prefix, preset |-> preset]
          /\ dest' = InitialDest(struct, preset)
          /\ stack' = << [struct |-> struct, i |-> 1, prefix |-> prefix, path |-> <<>>] >>
    /\ pc' = "walk"
    /\ UNCHANGED <<err, lookups, written, envCalls>>
    /\ CallUnchanged

\* the innermost ParseStruct activation
Frame == stack[Len(stack)]

\* struct.go:114-117
fieldTag(f) ==
    IF f.hasTag THEN f.tag ELSE ToUpper(convertUpperCaseWithUnderLine(f.name))

\* a composition that forgets the prefix
composeKeyFlat(prefix, key) == key

\* struct.go:121-123
composeKey(prefix, key) ==
    IF prefix # <<>> THEN prefix \o <<".">> \o key ELSE key

\* Parser.BuildKey and Parser.Get of NewParser(nil, nil), struct.go:70
BuildKey(key) == DefaultKeyFunc(key)
Get(key, def) == DefaultGetFunc(key, def)

\* struct.go:126: what one turn of the loop knows of its field f in the
\* activation fr, key the composed key and def the tag's default
withKey(fr, f, key, def) ==
    [ field  |-> f,
      path   |-> Append(fr.path, f.name),
      key    |-> key,
      def    |-> def,
      lookup |-> BuildKey(key),
      str    |-> Get(BuildKey(key), def) ]

\* struct.go:120-123, tag the result of parseStructTags
withTag(fr, f, tag) == withKey(fr, f, composeKey(fr.prefix, tag.key), tag.def)

\* struct.go:106-126
Resolve(fr, f) == withTag(fr, f, parseStructTags(fieldTag(f)))

\* the loop of the innermost activation is at a field
AtField == pc = "walk" /\ Frame.i <= Len(Fields(Frame.struct))
CurField == Fields(Frame.struct)[Frame.i]

\* the turn of the loop at that field
Step == Resolve(Frame, CurField)

\* a skip rule that does not look at the field's kind
SkippedWhenEmpty(s) == s.str = <<>>

\* struct.go:128
Skipped(s) == s.str = <<>> /\ ReflectKind(s.field.type) # "struct"

\* the call of Parser.Get, struct.go:126
Lookup(s) ==
    lookups' = Append(lookups, [path |-> s.path, key |-> s.lookup,
                                def |-> s.def, got |-> s.str])

\* the loop goes on with the next field
NextField == stack' = [stack EXCEPT ![Len(stack)].i = @ + 1]

\* an error that is noted while the loop goes on
ReturnErrorAndGoOn(e) ==
    /\ err' = e
    /\ pc' = pc
    /\ NextField

\* an error is returned through every activation
ReturnError(e) ==
    /\ pc' = "done"
    /\ err' = e
    /\ stack' = <<>>

\* struct.go:109
SkipUnexported ==
    /\ AtField
    /\ ~IsExported(CurField)
    /\ NextField
    /\ UNCHANGED <<pc, root, dest, err, lookups, written, envCalls>>
    /\ CallUnchanged

\* struct.go:128
SkipEmpty ==
    /\ AtField
    /\ IsExported(CurField)
    /\ \E s \in {Step} :
          /\ Skipped(s)
          /\ Lookup(s)
    /\ NextField
    /\ UNCHANGED <<pc, root, dest, err, written, envCalls>>
    /\ CallUnchanged

IsLeafKind(t) == t.kind \notin {"struct", "map", "slice"}

\* reflect.Value.Set and its kin on the field at path
Store(path, r) ==
    /\ dest' = IF r.set THEN [dest EXCEPT ![path] = r.val] ELSE dest
    /\ written' = IF r.set THEN written \cup {path} ELSE written

\* ParseValue on a scalar or named type that accepts the string
ParseLeafOk ==
    /\ AtField
    /\ IsExported(CurField)
    /\ IsLeafKind(CurField.type)
    /\ \E s \in {Step} :
          /\ ~Skipped(s)
          /\ \E r \in { ParseLeaf(s.field.type, s.str) } :
                /\ ~r.err
                /\ Store(s.path, r)
          /\ Lookup(s)
    /\ NextField
    /\ UNCHANGED <<pc, root, err, envCalls>>
    /\ CallUnchanged

\* ParseValue on a scalar or named type that rejects the string
ParseLeafFail ==
    /\ AtField
    /\ IsExported(CurField)
    /\ IsLeafKind(CurField.type)
    /\ \E s \in {Step} :
          /\ ~Skipped(s)
          /\ ParseLeaf(s.field.type, s.str).err
          /\ Lookup(s)
          /\ ReturnError(Error("BadFormat", s.path))
    /\ UNCHANGED <<root, dest, written, envCalls>>
    /\ CallUnchanged

\* the field holds what the coercion left in it; its error, if any, is returned
StoreCollection(s, r) ==
    /\ dest' = [dest EXCEPT ![s.path] = r.val]
    /\ written' = written \cup {s.path}
    /\ IF r.err
       THEN ReturnError(Error("BadFormat", s.path))
       ELSE NextField /\ UNCHANGED <<pc, err>>

\* ParseValue on a map: struct.go:209
ParseMapField ==
    /\ AtField
    /\ IsExported(CurField)
    /\ CurField.type.kind = "map"
    /\ \E s \in {Step} :
          /\ ~Skipped(s)
          /\ StoreCollection(s, parseMap(s.field.type.key, s.field.type.elem, s.str))
          /\ Lookup(s)
    /\ UNCHANGED <<root, envCalls>>
    /\ CallUnchanged

\* ParseValue on a slice: struct.go:211
ParseSliceField ==
    /\ AtField
    /\ IsExported(CurField)
    /\ CurField.type.kind = "slice"
    /\ \E s \in {Step} :
          /\ ~Skipped(s)
          /\ StoreCollection(s, parseArray(s.field.type.elem, dest[s.path], s.str))
          /\ Lookup(s)
    /\ UNCHANGED <<root, envCalls>>
    /\ CallUnchanged

\* the results a ParseEnv may return: TestParsVal's returns nil; the
\* EnvParser interface allows any error
ParseEnvResults == { NoError, Error("ParseEnv", <<>>) }

\* TestParsVal.ParseEnv, envs_test.go:150, on the structure at path
ParseEnv(path, name) ==
    dest' = [dest EXCEPT ![Append(path, <<"N","a","m","e">>)] =
                IF name = <<>>
                THEN <<"F","r","o","m"," ","P","a","r","s","E","n","v">>
                ELSE name]

\* a call of the method that hands it the transformed key
CallParseEnvTransformed(s) ==
    \E e \in ParseEnvResults :
        /\ envCalls' = Append(envCalls, [path |-> s.path, prefix |-> s.lookup, result |-> e])
        /\ IF e = NoError
           THEN /\ ParseEnv(s.path, Getenv(TestParsValKey(s.key)))
                /\ NextField
                /\ UNCHANGED <<pc, err>>
           ELSE /\ ReturnError(e)
                /\ UNCHANGED dest

\* struct.go:219-229: the call of the method and what becomes of its result
CallParseEnv(s) ==
    \E e \in ParseEnvResults :
        /\ envCalls' = Append(envCalls, [path |-> s.path, prefix |-> s.key, result |-> e])
        /\ IF e = NoError
           THEN /\ ParseEnv(s.path, Getenv(TestParsValKey(s.key)))
                /\ NextField
                /\ UNCHANGED <<pc, err>>
           ELSE /\ ReturnError(e)
                /\ UNCHANGED dest

\* ParseValue on a structure whose pointer implements EnvParser:
\* struct.go:215-230
SelfParse ==
    /\ AtField
    /\ IsExported(CurField)
    /\ CurField.type.kind = "struct"
    /\ CurField.type.self
    /\ \E s \in {Step} :
          /\ ~Skipped(s)
          /\ CallParseEnv(s)
          /\ Lookup(s)
    /\ UNCHANGED <<root, written>>
    /\ CallUnchanged

\* ParseValue on the empty structure: struct.go:233
SkipEmptyStruct ==
    /\ AtField
    /\ IsExported(CurField)
    /\ CurField.type.kind = "struct"
    /\ ~CurField.type.self
    /\ CurField.type.struct = "Empty"
    /\ \E s \in {Step} :
          /\ ~Skipped(s)
          /\ Lookup(s)
    /\ NextField
    /\ UNCHANGED <<pc, root, dest, err, written, envCalls>>
    /\ CallUnchanged

\* struct.go:237: ParseStruct on the nested structure
Recurse(s) ==
    stack' = Append(stack, [struct |-> s.field.type.struct, i |-> 1,
                            prefix |-> s.key, path |-> s.path])

\* ParseValue on any other structure
EnterStruct ==
    /\ AtField
    /\ IsExported(CurField)
    /\ CurField.type.kind = "struct"
    /\ ~CurField.type.self
    /\ CurField.type.struct # "Empty"
    /\ \E s \in {Step} :
          /\ ~Skipped(s)
          /\ Lookup(s)
          /\ Recurse(s)
    /\ UNCHANGED <<pc, root, dest, err, written, envCalls>>
    /\ CallUnchanged

\* the loop of a nested ParseStruct is over: nil to the caller's loop
ReturnNested ==
    /\ pc = "walk"
    /\ Frame.i > Len(Fields(Frame.struct))
    /\ Len(stack) > 1
    /\ stack' = [SubSeq(stack, 1, Len(stack) - 1) EXCEPT ![Len(stack) - 1].i = @ + 1]
    /\ UNCHANGED <<pc, root, dest, err, lookups, written, envCalls>>
    /\ CallUnchanged

\* the loop of the root ParseStruct is over: struct.go:138
ReturnRoot ==
    /\ pc = "walk"
    /\ Frame.i > Len(Fields(Frame.struct))
    /\ Len(stack) = 1
    /\ stack' = <<>>
    /\ pc' = "done"
    /\ err' = NoError
    /\ UNCHANGED <<root, dest, lookups, written, envCalls>>
    /\ CallUnchanged

Next ==
    \/ CallNotPointer
    \/ CallNilPointer
    \/ CallNotStruct
    \/ CallStruct
    \/ SkipUnexported
    \/ SkipEmpty
    \/ ParseLeafOk
    \/ ParseLeafFail
    \/ ParseMapField
    \/ ParseSliceField
    \/ SelfParse
    \/ SkipEmptyStruct
    \/ EnterStruct
    \/ ReturnNested
    \/ ReturnRoot

Spec == Init /\ [][Next]_vars

(***************************************************************************)
(* Single calls of parseStructTags, parseMap and parseArray on generated   *)
(* arguments.                                                              *)
(***************************************************************************)
WalkerIdle ==
    /\ env = <<>>
    /\ root = [kind |-> "none"]
    /\ stack = <<>>
    /\ dest = <<>>
    /\ err = [kind |-> "nil", path |-> <<>>]
    /\ lookups = <<>>
    /\ written = {}
    /\ envCalls = <<>>

WalkerUnchanged ==
    UNCHANGED <<env, root, stack, dest, err, lookups, written, envCalls>>

TagTokens == { <<"a">>, <<",">>, <<":">>, <<" ">>, DefaultMarker }
\* the defaults V, given without surrounding white space: parseStructTags
\* trims the whole annotation first
TagDefaults ==
    { v \in { Flatten(q) : q \in SeqsUpTo(TagTokens, MaxTagTokens) } : TrimSpace(v) = v }
TagKeys == { <<"K">>, <<"M","A","P">> }

\* the annotation strings of section 6: "KEY,default=V", "KEY,V", "KEY", "-", ""
TagArgs ==
    { [fn |-> "parseStructTags", form |-> "default", key |-> k, v |-> v,
       tag |-> k \o <<",">> \o DefaultMarker \o v] : k \in TagKeys, v \in TagDefaults }
    \cup
    { [fn |-> "parseStructTags", form |-> "bare", key |-> k, v |-> v,
       tag |-> k \o <<",">> \o v] : k \in TagKeys, v \in { <<"a">>, <<"a",",","a">> } }
    \cup
    { [fn |-> "parseStructTags", form |-> "key", key |-> t, v |-> <<>>, tag |-> t] :
        t \in TagKeys \cup { <<"-">>, <<>> } }

InitTags ==
    /\ WalkerIdle
    /\ pc = "call"
    /\ arg \in TagArgs
    /\ ret = "none"

CallParseStructTags ==
    /\ pc = "call"
    /\ arg.fn = "parseStructTags"
    /\ ret' = parseStructTags(arg.tag)
    /\ pc' = "done"
    /\ UNCHANGED arg
    /\ WalkerUnchanged

NextTags == CallParseStructTags

SpecTags == InitTags /\ [][NextTags]_vars

HelloWorld == <<"1",":","H","e","l","l","o"," ","w","o","r","l","d">>

RawAlphabet == {"1", "a", ":", ",", ";", "-", " "}
RawStrings == SeqsUpTo(RawAlphabet, MaxRawLen) \cup { HelloWorld }

\* what a slice field holds before the coercion
OldElems(t) == IF t = IntT THEN {7} ELSE { <<"z">> }
OldSlices(t) == SeqsUpTo(OldElems(t), MaxOldLen)

MapArgs ==
    { [fn |-> "parseMap", raw |-> r, key |-> IntT, elem |-> StringT, old |-> <<>>] :
        r \in RawStrings }

ArrayArgs(t) ==
    { [fn |-> "parseArray", raw |-> r, key |-> NoT, elem |-> t, old |-> o] :
        r \in RawStrings, o \in OldSlices(t) }

InitColl ==
    /\ WalkerIdle
    /\ pc = "call"
    /\ \/ arg \in MapArgs
       \/ arg \in ArrayArgs(IntT)
       \/ arg \in ArrayArgs(StringT)
    /\ ret = "none"

CallParseMap ==
    /\ pc = "call"
    /\ arg.fn = "parseMap"
    /\ ret' = parseMap(arg.key, arg.elem, arg.raw)
    /\ pc' = "done"
    /\ UNCHANGED arg
    /\ WalkerUnchanged

CallParseArray ==
    /\ pc = "call"
    /\ arg.fn = "parseArray"
    /\ ret' = parseArray(arg.elem, arg.old, arg.raw)
    /\ pc' = "done"
    /\ UNCHANGED arg
    /\ WalkerUnchanged

NextColl == CallParseMap \/ CallParseArray

SpecColl == InitColl /\ [][NextColl]_vars

(***************************************************************************)
(* Get[T], envs.go:74.  T is one of the types the claim of the generic     *)
(* accessor names.  res is the interface value the function builds: nil,   *)
(* or a value with its dynamic type.  A slice is [nil, elems], so that the *)
(* nil slice and the empty slice differ.                                   *)
(***************************************************************************)
GetTypes == { "string", "[]string", "[]int", "int", "int32", "int64",
              "float32", "float64", "bool", "time.Duration", "time.Time" }

\* reflect.Type.Kind of T
GetKind(tp) ==
    CASE tp \in {"[]string", "[]int"} -> "slice"
      [] tp = "time.Duration"         -> "int64"
      [] tp = "time.Time"             -> "struct"
      [] OTHER                        -> tp

\* reflect.New(tp).Elem(): the zero value of T
GetZero(tp) ==
    CASE tp = "string"                 -> <<>>
      [] tp \in {"[]string", "[]int"}  -> [nil |-> TRUE, elems |-> <<>>]
      [] tp \in {"int", "int32", "int64"} -> 0
      [] tp \in {"float32", "float64"} -> [num |-> 0, scale |-> 0]
      [] tp = "bool"                   -> FALSE
      [] tp = "time.Duration"          -> [s |-> 0, ns |-> 0]
      [] OTHER                         -> ZeroTime

NilRes == [nil |-> TRUE, type |-> "nil", val |-> 0]
Res(type, val) == [nil |-> FALSE, type |-> type, val |-> val]

\* envs.go:13
separators == << <<" ">>, <<",">>, <<";">>, <<"\n">> >>

\* envs.go:14; the layouts with a name in them (RFC3339 and RFC3339Nano with
\* their T, Stamp, ANSIC, RFC822, UnixDate) match no string of digits, marks
\* and lower-case letters
timeLayouts ==
    << <<"N">>, <<"N">>,
       <<"Y","-","M","-","D"," ","h",":","m",":","s">>,                  \* time.DateTime
       <<"N">>,
       <<"Y","-","M","-","D">>,                                          \* time.DateOnly
       <<"h",":","m",":","s">>,                                          \* time.TimeOnly
       <<"N">>, <<"N">>, <<"N">> >>

\* parseInt64, envs.go:144: the error is dropped, and with it the number is 0
parseInt64(val) == ParseInt(val).val

\* envs.go:88-94: the first separator that splits val gives the slice
RECURSIVE splitFirstFrom(_, _)
splitFirstFrom(val, i) ==
    IF i > Len(separators) THEN NilRes
    ELSE IF Split(val, separators[i])[1] # val
         THEN Res("[]string", [nil |-> FALSE, elems |-> Split(val, separators[i])])
         ELSE splitFirstFrom(val, i + 1)

\* envs.go:98-103
intSlice(split) ==
    Res("[]int", [nil |-> FALSE, elems |-> [i \in DOMAIN split |-> parseInt64(split[i])]])

\* the switch on the kind of T, envs.go:83-117
getByKind(tp, val) ==
    CASE GetKind(tp) = "string"  -> Res("string", val)
      [] tp = "[]string"         -> splitFirstFrom(val, 1)
      [] tp = "[]int"            -> intSlice(Split(val, <<",">>))
      [] GetKind(tp) = "int"     -> Res("int", parseInt64(val))
      [] GetKind(tp) = "int32"   -> Res("int32", SetInt(parseInt64(val), 32))
      [] GetKind(tp) = "int64"   -> Res("int64", parseInt64(val))
      [] GetKind(tp) = "float64" -> Res("float64", ParseFloat(val).val)
      [] GetKind(tp) = "float32" -> Res("float64", ParseFloat(val).val)
      [] GetKind(tp) = "bool"    -> Res("bool", ParseBool(val).val)
      [] OTHER                   -> NilRes

\* envs.go:119-121
getDuration(tp, val, res) ==
    IF tp = "time.Duration" THEN Res("time.Duration", ParseDuration(val).val) ELSE res

\* envs.go:124-130: the first layout that parses val to a time that is not
\* the zero time
RECURSIVE firstLayoutFrom(_, _, _)
firstLayoutFrom(val, i, res) ==
    IF i > Len(timeLayouts) THEN res
    ELSE IF ~timeParse(timeLayouts[i], val).err /\ timeParse(timeLayouts[i], val).val # ZeroTime
         THEN Res("time.Time", timeParse(timeLayouts[i], val).val)
         ELSE firstLayoutFrom(val, i + 1, res)

\* envs.go:123-131
getTime(tp, val, res) ==
    IF tp = "time.Time" THEN firstLayoutFrom(val, 1, res) ELSE res

\* envs.go:137-141
getResult(tp, res) ==
    IF res.nil \/ res.type # tp THEN GetZero(tp) ELSE res.val

\* Get[T](name), envs.go:74
GetT(tp, name) ==
    IF Getenv(name) = <<>> THEN GetZero(tp)
    ELSE getResult(tp, getTime(tp, Getenv(name),
                          getDuration(tp, Getenv(name), getByKind(tp, Getenv(name)))))

(***************************************************************************)
(* Single calls of Get[T] on the name K, the environment holding nothing,  *)
(* the empty string or a generated string under K.                         *)
(***************************************************************************)
GetName == <<"K">>

GetAlphabet == {"1", "t", "s", ",", " ", "x"}
FloatAlphabet == {"1", "5", ".", "-", "x"}
TimeStrings ==
    { <<"2","0","2","4","-","0","4","-","1","6">>,
      <<"2","0","2","4","-","0","4","-","1","6"," ","1","3",":","3","2",":","2","7">>,
      <<"1","3",":","3","2",":","2","7">>,
      <<"2","0","2","4","-","0","4","-","3","8">> }

\* what the environment may hold under K for a call of Get[T]
GetValues(tp) ==
    IF tp \in {"float32", "float64"} THEN SeqsUpTo(FloatAlphabet, MaxGetLen)
    ELSE SeqsUpTo(GetAlphabet, MaxGetLen) \cup TimeStrings

InitGet ==
    /\ \E tp \in GetTypes :
          /\ arg = [fn |-> "Get", type |-> tp, name |-> GetName]
          /\ env \in { <<>> } \cup { (GetName :> v) : v \in GetValues(tp) }
    /\ root = [kind |-> "none"]
    /\ stack = <<>>
    /\ dest = <<>>
    /\ err = NoError
    /\ lookups = <<>>
    /\ written = {}
    /\ envCalls = <<>>
    /\ pc = "call"
    /\ ret = "none"

CallGet ==
    /\ pc = "call"
    /\ arg.fn = "Get"
    /\ ret' = [val |-> GetT(arg.type, arg.name)]
    /\ pc' = "done"
    /\ UNCHANGED arg
    /\ WalkerUnchanged

NextGet == CallGet

SpecGet == InitGet /\ [][NextGet]_vars

(***************************************************************************)
(* Single calls of ParseValue, struct.go:143, on a settable integer value  *)
(* of each kind and width, with a generated string.  The widths 32 and 64  *)
(* meet only numbers that fit them.                                        *)
(***************************************************************************)
IntWidths == {8, 16, 32, 64}
IntTypes == { Leaf(k, w) : k \in {"int", "uint"}, w \in IntWidths }

IntAlphabet == {"0", "3", "9", "-", "x"}
IntStrings == SeqsUpTo(IntAlphabet, MaxIntLen)

InitValue ==
    /\ WalkerIdle
    /\ pc = "call"
    /\ arg \in { [fn |-> "ParseValue", type |-> t, raw |-> r] :
                    t \in IntTypes, r \in IntStrings }
    /\ ret = "none"

CallParseValue ==
    /\ pc = "call"
    /\ arg.fn = "ParseValue"
    /\ ret' = ParseLeaf(arg.type, arg.raw)
    /\ pc' = "done"
    /\ UNCHANGED arg
    /\ WalkerUnchanged

NextValue == CallParseValue

SpecValue == InitValue /\ [][NextValue]_vars

(***************************************************************************)
(* What the claims about the walk are stated with: the fields of the root  *)
(* structure as the declarations give them, independent of the walk.       *)
(***************************************************************************)
\* ParseStruct was called with a pointer to a structure
Walked == root.kind = "ptr" /\ root.elem = "struct"

ConfigReach == Reach("Config", <<>>, <<>>)
EventReach == Reach("Event", <<>>, <<>>)
MarkedReach == Reach("Marked", <<>>, <<>>)
Reached(struct) ==
    CASE struct = "Config" -> ConfigReach
      [] struct = "Event"  -> EventReach
      [] OTHER             -> MarkedReach

\* the declaration of the field at a path: its type and the segments to it
FieldAt(struct, path) == CHOOSE e \in Reached(struct) : e.path = path

\* the exported fields in declaration order, the fields of a nested
\* structure right after the structure field
RECURSIVE VisitFrom(_, _, _)
VisitFrom(struct, path, i) ==
    IF i > Len(Fields(struct)) THEN <<>>
    ELSE LET f == Fields(struct)[i]
             p == Append(path, f.name)
         IN  (IF ~IsExported(f) THEN <<>>
              ELSE IF f.type.kind = "struct" /\ ~f.type.self
                   THEN <<p>> \o VisitFrom(f.type.struct, p, 1)
                   ELSE <<p>>)
             \o VisitFrom(struct, path, i + 1)

ConfigOrder == VisitFrom("Config", <<>>, 1)
EventOrder == VisitFrom("Event", <<>>, 1)
MarkedOrder == VisitFrom("Marked", <<>>, 1)
DeclarationOrder(struct) ==
    CASE struct = "Config" -> ConfigOrder
      [] struct = "Event"  -> EventOrder
      [] OTHER             -> MarkedOrder

\* the coercion of a non-empty string to a type fails
Rejected(t, str) ==
    CASE t.kind = "struct" -> FALSE
      [] t.kind = "map"    -> parseMap(t.key, t.elem, str).err
      [] t.kind = "slice"  -> parseArray(t.elem, <<>>, str).err
      [] OTHER             -> ParseLeaf(t, str).err

\* what the coercion of a string leaves in a field that held old
Coerced(t, old, str) ==
    CASE t.kind = "map"   -> parseMap(t.key, t.elem, str).val
      [] t.kind = "slice" -> parseArray(t.elem, old, str).val
      [] OTHER            -> ParseLeaf(t, str).val

\* what a field held before the walk
Before(t) == IF root.preset THEN PresetOf(t) ELSE ZeroOf(t)

IsStrictPrefix(p, q) == Len(p) < Len(q) /\ SubSeq(q, 1, Len(p)) = p

HostPath == << <<"H","o","s","t">> >>
PortPath == << <<"P","o","r","t">> >>
PassPath == << <<"S","e","r","v","e","r">>, <<"D","b">>, <<"P","a","s","s">> >>
TestValPath == << <<"T","e","s","t","V","a","l">> >>

(***************************************************************************)
(* C1.  For every exported field the tag's default is the field's input if *)
(* and only if the environment has no non-empty value for the field's key; *)
(* a non-empty value that cannot be coerced makes ParseStruct return an    *)
(* error, and the field is not set from the default.                       *)
(***************************************************************************)
C1_DefaultOnlyWhenEmpty ==
    Walked =>
        \A i \in DOMAIN lookups :
            \E l \in {lookups[i]} :
            \E t \in {FieldAt(root.struct, l.path).type} :
            \E held \in {Getenv(l.key)} :
                /\ held = <<>> => l.got = l.def
                /\ held # <<>> => l.got = held
                /\ (held # <<>> /\ Rejected(t, held)) =>
                      /\ pc = "done"
                      /\ err = Error("BadFormat", l.path)
                      /\ IsLeafKind(t) =>
                            (l.path \notin written /\ dest[l.path] = Before(t))
                      /\ ~IsLeafKind(t) =>
                            dest[l.path] = Coerced(t, Before(t), held)

\* Host is set from its default; PORT holds a string that is no integer, and
\* the walk ends with Port's error although Port's default is a good one
C1_Witness ==
    /\ Walked
    /\ pc = "done"
    /\ root.struct = "Config"
    /\ dest[HostPath] = <<"h">>
    /\ HostPath \in written
    /\ \E i \in DOMAIN lookups :
          /\ lookups[i].path = PortPath
          /\ lookups[i].def = <<"8","0">>
          /\ ~ParseLeaf(IntT, lookups[i].def).err
          /\ lookups[i].got = <<"x">>
          /\ Getenv(lookups[i].key) = <<"x">>
    /\ err = Error("BadFormat", PortPath)
    /\ dest[PortPath] = Before(IntT)

(***************************************************************************)
(* C2.  ParseStruct visits the fields in declaration order and stops at    *)
(* the first field whose coercion fails: it returns that field's error,    *)
(* the fields set before it keep their new values, and no field declared   *)
(* after it is looked up or written.                                       *)
(***************************************************************************)
C2_FirstFailureStops ==
    Walked =>
        \E order \in {DeclarationOrder(root.struct)} :
        \E n \in {Len(lookups)} :
            /\ n <= Len(order)
            /\ \A i \in 1..n : lookups[i].path = order[i]
            /\ written \subseteq { lookups[i].path : i \in 1..n }
            /\ (pc = "done" /\ err = NoError) => n = Len(order)
            /\ (pc = "done" /\ err.kind = "BadFormat") => err.path = lookups[n].path
            /\ \A i \in 1..n :
                  \E l \in {lookups[i]} :
                  \E t \in {FieldAt(root.struct, l.path).type} :
                      /\ (l.got # <<>> /\ Rejected(t, l.got)) =>
                            /\ i = n
                            /\ pc = "done"
                            /\ err = Error("BadFormat", l.path)
                      /\ (l.path \in written /\ ~Rejected(t, l.got)) =>
                            dest[l.path] = Coerced(t, Before(t), l.got)
            /\ \A e \in Reached(root.struct) :
                  (e.type.kind # "struct" /\ e.path \notin written
                        /\ e.path \notin { lookups[i].path : i \in 1..n })
                      => dest[e.path] = Before(e.type)

\* the walk ends with the error of Pass, three levels down: Host and Port
\* were set before it, and the fields after it were never looked up
C2_Witness ==
    /\ Walked
    /\ pc = "done"
    /\ root.struct = "Config"
    /\ root.preset
    /\ err = Error("BadFormat", PassPath)
    /\ {HostPath, PortPath} \subseteq written
    /\ dest[HostPath] = <<"h">>
    /\ dest[PortPath] = 80
    /\ lookups[Len(lookups)].path = PassPath
    /\ Len(lookups) < Len(ConfigOrder)

(***************************************************************************)
(* C3.  At every nesting depth the key handed to the getter for a field F  *)
(* reached through the structure fields S1..Sn under the root prefix P is  *)
(* transform(P.S1. ... .Sn.F), each segment the field's tag key or its     *)
(* UPPER_SNAKE name and transform the KeyFunc; with an empty root prefix   *)
(* the leading "P." is left out.                                           *)
(***************************************************************************)
C3_ComposedKey ==
    Walked =>
        \A i \in DOMAIN lookups :
            lookups[i].key =
                DefaultKeyFunc(DottedKey(root.prefix,
                                         FieldAt(root.struct, lookups[i].path).segs))

\* Pass, three levels down under the prefix APP, and TimeOut, whose segment
\* and whose structure's segment are derived from the names
C3_Witness ==
    /\ Walked
    /\ root.prefix = <<"A","P","P">>
    /\ \E i \in DOMAIN lookups :
          /\ lookups[i].path = PassPath
          /\ lookups[i].key = <<"A","P","P","_","S","E","R","V","E","R","_",
                                "D","B","_","P","A","S","S">>
    /\ \E i \in DOMAIN lookups :
          /\ lookups[i].path = << <<"S","e","r","v","e","r">>,
                                  <<"T","i","m","e","O","u","t">> >>
          /\ lookups[i].key = <<"A","P","P","_","S","E","R","V","E","R","_",
                                "T","I","M","E","_","O","U","T">>

(***************************************************************************)
(* C4.  For every annotation "KEY,default=V", V any string that may hold   *)
(* commas, parseStructTags returns key = KEY and default = V exactly.      *)
(***************************************************************************)
C4_DefaultReturnedExactly ==
    (pc = "done" /\ arg.fn = "parseStructTags" /\ arg.form = "default")
        => ret = [key |-> arg.key, def |-> arg.v]

(***************************************************************************)
(* C5.  Map coercion splits each pair-token on its first colon only: the   *)
(* key is the text before it, the value the whole remainder; and the raw   *)
(* string "1:Hello world" coerces to the one entry 1 -> "Hello world".     *)
(***************************************************************************)
BeforeFirstColon(tok) == Take(tok, Index(tok, <<":">>) - 1)
AfterFirstColon(tok) == Drop(tok, Index(tok, <<":">>))

C5_FirstColonOnly ==
    (pc = "done" /\ arg.fn = "parseMap") =>
        /\ arg.raw = HelloWorld =>
              ret = [err |-> FALSE,
                     val |-> (1 :> <<"H","e","l","l","o"," ","w","o","r","l","d">>)]
        /\ LET toks == splitStr(arg.raw)
               k    == ParseInt(TrimSpace(BeforeFirstColon(toks[1])))
           IN  (Len(toks) = 1 /\ Contains(toks[1], <<":">>) /\ ~k.err) =>
                  ret = [err |-> FALSE,
                         val |-> (k.val :> TrimSpace(AfterFirstColon(toks[1])))]

(***************************************************************************)
(* C6.  A field whose resolved string is empty and whose type is not a     *)
(* nested structure to be walked (text, integer, float, boolean, map,      *)
(* sequence, time instant, duration, URL) is skipped: it is not written,   *)
(* it keeps the value it had, and the empty value causes no error.         *)
(***************************************************************************)
C6_EmptyIsSkipped ==
    Walked =>
        \A i \in DOMAIN lookups :
            \E l \in {lookups[i]} :
            \E t \in {FieldAt(root.struct, l.path).type} :
                (l.got = <<>> /\ t.kind # "struct") =>
                    /\ l.path \notin written
                    /\ dest[l.path] = Before(t)
                    /\ ~(err.kind = "BadFormat" /\ err.path = l.path)

(***************************************************************************)
(* C7.  A nested structure field without ParseEnv is always walked, even   *)
(* when the getter returns the empty string for its own key: with only a   *)
(* grandchild key P.S1.S2.F in the environment, ParseStruct on the root    *)
(* sets that grandchild field and returns no error.                        *)
(***************************************************************************)
C7_NestedAlwaysWalked ==
    Walked =>
        /\ \A i \in DOMAIN lookups :
              \E l \in {lookups[i]} :
              \E t \in {FieldAt(root.struct, l.path).type} :
                  (t.kind = "struct" /\ ~t.self /\ Fields(t.struct) # <<>>) =>
                      IF i < Len(lookups)
                      THEN lookups[i + 1].path = Append(l.path, Fields(t.struct)[1].name)
                      ELSE pc = "walk" /\ Frame.path = l.path /\ Frame.i = 1
        /\ ( /\ pc = "done"
             /\ root.struct = "Config"
             /\ env = (DefaultKeyFunc(DottedKey(root.prefix,
                           << <<"S","E","R","V","E","R">>, <<"D","B">>,
                              <<"P","A","S","S">> >>)) :> <<"3">>)
             /\ \A k \in DOMAIN envCalls : envCalls[k].result = NoError )
           => /\ err = NoError
              /\ PassPath \in written
              /\ dest[PassPath] = 3

\* only APP_SERVER_DB_PASS is set: the walk under the prefix APP ends without
\* an error and Pass holds its value
C7_Witness ==
    /\ Walked
    /\ pc = "done"
    /\ root.struct = "Config"
    /\ root.prefix = <<"A","P","P">>
    /\ ~root.preset
    /\ env = (<<"A","P","P","_","S","E","R","V","E","R","_","D","B","_",
                "P","A","S","S">> :> <<"3">>)
    /\ err = NoError
    /\ dest[PassPath] = 3
    /\ \E i \in DOMAIN lookups :
          /\ lookups[i].path = << <<"S","e","r","v","e","r">> >>
          /\ lookups[i].got = <<>>

(***************************************************************************)
(* C8.  When a structure field's type implements ParseEnv on its pointer,  *)
(* the walker calls ParseEnv exactly once, with the field's composed key   *)
(* before the key transform as prefix, returns ParseEnv's error unchanged  *)
(* (nil on success), and neither looks up nor writes a field of that       *)
(* structure.                                                              *)
(***************************************************************************)
C8_SelfParsingDeferred ==
    Walked =>
        \E self \in {{ i \in DOMAIN lookups :
                         FieldAt(root.struct, lookups[i].path).type.self }} :
            /\ Len(envCalls) = Cardinality(self)
            /\ \A i \in self :
                  \E l \in {lookups[i]} :
                      /\ \E k \in DOMAIN envCalls :
                            /\ envCalls[k].path = l.path
                            /\ envCalls[k].prefix =
                                  DottedKey(root.prefix, FieldAt(root.struct, l.path).segs)
                            /\ envCalls[k].result # NoError =>
                                  /\ pc = "done"
                                  /\ err = envCalls[k].result
                                  /\ i = Len(lookups)
                            /\ envCalls[k].result = NoError =>
                                  /\ err.kind # "ParseEnv"
                                  /\ i = Len(lookups) => pc = "walk"
                      /\ \A j \in DOMAIN lookups : ~IsStrictPrefix(l.path, lookups[j].path)
                      /\ \A p \in written : ~IsStrictPrefix(l.path, p)

\* under the prefix APP, ParseEnv of TestVal is called once, with "APP.PV",
\* after Host and Port were set, and its error ends the walk
C8_Witness ==
    /\ Walked
    /\ root.struct = "Config"
    /\ root.prefix = <<"A","P","P">>
    /\ envCalls = << [path |-> TestValPath, prefix |-> <<"A","P","P",".","P","V">>,
                      result |-> Error("ParseEnv", <<>>)] >>
    /\ pc = "done"
    /\ err = Error("ParseEnv", <<>>)
    /\ lookups[Len(lookups)].path = TestValPath
    /\ written = {HostPath, PortPath}

(***************************************************************************)
(* C9.  Sequence coercion of a raw string s yields, in order, the trimmed  *)
(* and coerced pieces of s split on the first separator, in the order      *)
(* comma, semicolon, hyphen, space, that occurs in s; the final length is  *)
(* the number of pieces whatever the slice held before; an error comes     *)
(* only from coercing a piece; and with no separator in s the result is    *)
(* the one-element list [s].                                               *)
(***************************************************************************)
SeparatorPriority == << <<",">>, <<";">>, <<"-">>, <<" ">> >>

FirstSeparator(s) ==
    LET present == { i \in DOMAIN SeparatorPriority : Contains(s, SeparatorPriority[i]) }
    IN  IF present = {} THEN 0 ELSE CHOOSE i \in present : \A j \in present : i <= j

Pieces(s) ==
    IF FirstSeparator(s) = 0 THEN <<s>> ELSE Split(s, SeparatorPriority[FirstSeparator(s)])

C9_SequenceCoercion ==
    (pc = "done" /\ arg.fn = "parseArray") =>
        LET pieces     == Pieces(arg.raw)
            coerced(i) == ParseLeaf(arg.elem, TrimSpace(pieces[i]))
            allGood    == \A i \in DOMAIN pieces : ~coerced(i).err
        IN  /\ Len(ret.val) = Len(pieces)
            /\ ret.err = ~allGood
            /\ allGood => ret.val = [i \in DOMAIN pieces |-> coerced(i).val]
            /\ (FirstSeparator(arg.raw) = 0 /\ arg.elem = StringT) =>
                  ret = [err |-> FALSE, val |-> <<arg.raw>>]

\* a string with a comma and a space, coerced into a slice that was longer
\* than the number of its pieces
C9_Witness ==
    /\ pc = "done"
    /\ arg.fn = "parseArray"
    /\ arg.elem = IntT
    /\ Contains(arg.raw, <<",">>)
    /\ Contains(arg.raw, <<" ">>)
    /\ ~ret.err
    /\ ret.val = <<1, 1>>
    /\ Len(arg.old) > Len(ret.val)

(***************************************************************************)
(* C10.  ParseStruct called with a nil pointer to a structure allocates    *)
(* the structure and goes on with the walk, returning the walk's result;   *)
(* it neither fails nor crashes because the pointer is nil.                *)
(***************************************************************************)
C10_NilPointerAllocated ==
    (root.kind = "nilptr" /\ root.elem = "struct") => pc \in {"walk", "done"}

(***************************************************************************)
(* C11.  For every supported type T of the generic accessor (string,       *)
(* []string, []int, int, int32, int64, float32, float64, bool,             *)
(* time.Duration, time.Time), Get[T](key) returns the value coerced from   *)
(* the environment entry when the entry is a valid literal of T, and the   *)
(* zero value of T when the key is absent, empty, or no valid literal.     *)
(***************************************************************************)
\* the items of a list literal: split on the first of the separators that
\* occurs in it, one item when none does
ListItems(v) ==
    LET present == { i \in DOMAIN separators : Contains(v, separators[i]) }
    IN  IF present = {} THEN <<v>>
        ELSE Split(v, separators[CHOOSE i \in present : \A j \in present : i <= j])

ValidLiteral(tp, v) ==
    CASE tp \in {"string", "[]string"}  -> TRUE
      [] tp = "[]int" -> \A i \in DOMAIN Split(v, <<",">>) : ~ParseInt(Split(v, <<",">>)[i]).err
      [] tp \in {"int", "int32", "int64"} -> ~ParseInt(v).err
      [] tp \in {"float32", "float64"}  -> ~ParseFloat(v).err
      [] tp = "bool"                    -> ~ParseBool(v).err
      [] tp = "time.Duration"           -> ~ParseDuration(v).err
      [] OTHER -> \E i \in DOMAIN timeLayouts : ~timeParse(timeLayouts[i], v).err

LiteralValue(tp, v) ==
    CASE tp = "string"   -> v
      [] tp = "[]string" -> [nil |-> FALSE, elems |-> ListItems(v)]
      [] tp = "[]int"    ->
           [nil |-> FALSE,
            elems |-> [i \in DOMAIN Split(v, <<",">>) |-> ParseInt(Split(v, <<",">>)[i]).val]]
      [] tp \in {"int", "int32", "int64"} -> ParseInt(v).val
      [] tp \in {"float32", "float64"}  -> ParseFloat(v).val
      [] tp = "bool"                    -> ParseBool(v).val
      [] tp = "time.Duration"           -> ParseDuration(v).val
      [] OTHER ->
           timeParse(timeLayouts[CHOOSE i \in DOMAIN timeLayouts :
                                     /\ ~timeParse(timeLayouts[i], v).err
                                     /\ \A j \in 1..(i - 1) : timeParse(timeLayouts[j], v).err],
                     v).val

C11_GetCoercesOrZero ==
    (pc = "done" /\ arg.fn = "Get") =>
        ret.val = IF Getenv(arg.name) # <<>> /\ ValidLiteral(arg.type, Getenv(arg.name))
                  THEN LiteralValue(arg.type, Getenv(arg.name))
                  ELSE GetZero(arg.type)

(***************************************************************************)
(* C12.  A non-structure field annotated with the skip marker "-", or with *)
(* an empty annotation, is skipped entirely: for every root prefix and     *)
(* every content of the environment ParseStruct never writes the field,    *)
(* and the field never causes an error.                                    *)
(***************************************************************************)
SkipMarked(f) == f.hasTag /\ TrimSpace(f.tag) \in { <<"-">>, <<>> }

C12_SkipMarkerSkips ==
    Walked =>
        \A i \in DOMAIN Fields(root.struct) :
            \E f \in {Fields(root.struct)[i]} :
                (SkipMarked(f) /\ f.type.kind # "struct") =>
                    /\ <<f.name>> \notin written
                    /\ dest[<<f.name>>] = Before(f.type)
                    /\ err.path # <<f.name>>

(***************************************************************************)
(* C13.  Integer coercion respects the width of the target: for a signed   *)
(* or unsigned integer field of 8, 16, 32 or 64 bits and a base-10 string, *)
(* ParseValue either stores exactly the number the string denotes or       *)
(* returns an error; it never stores a different number.                   *)
(***************************************************************************)
\* the number a string of an optional sign and digits denotes
Denoted(s) ==
    IF s[1] = "-" THEN 0 - Atoi(Tail(s))
    ELSE IF s[1] = "+" THEN Atoi(Tail(s))
    ELSE Atoi(s)

C13_WidthRespected ==
    (pc = "done" /\ arg.fn = "ParseValue" /\ ~ret.err) =>
        /\ ret.set
        /\ ret.val = Denoted(arg.raw)

====
